---- MODULE Spec2Model ----
(***************************************************************************)
(* A model of the BigV Terraform provider: the session-carrying HTTP       *)
(* client (bigv/client.go) and the VM resource operations                  *)
(* (bigv/resource_vm.go).                                                  *)
(*                                                                         *)
(* Operations run as goroutines, one per resource.  An operation is cut    *)
(* into steps at the points where it touches state that other operations  *)
(* share (the two package-level mutexes and client.session) or where it    *)
(* waits (a select on timers).  Code between two such points is local and  *)
(* is part of the step that precedes it.                                   *)
(***************************************************************************)
EXTENDS Integers, Sequences, FiniteSets, TLC

(* ------------------------------ bounds --------------------------------- *)

\* Number of operations (goroutines) that run against the one client.
NumOps == 2

\* Polls one wait loop may issue in the concurrent specification.
MaxPolls == 1

\* Seconds a wait loop is followed for in the single-operation specification.
MaxElapsed == 1205

\* computeCoresToMemory is applied to every bigvVm with up to MaxCores cores
\* and up to MaxMemory MiB of memory, up to MaxCalls times in a row.
MaxCores == 4
MaxMemory == 12288
MaxCalls == 2

\* resourceFromJson is applied to every descriptor with up to MaxNics network
\* interfaces of up to MaxIps addresses each.
MaxNics == 2
MaxIps == 3

(* ------------------------- program constants --------------------------- *)

waitForVM == 1200
vmCheckInterval == 5
\* 1 + iota, on the fourth and fifth line of the const block
waitForProvisioned == 4
waitForPowered == 5

\* for i := 0; i < 3; i++ in client.do
doAttempts == 3

StatusOK == 200
StatusAccepted == 202
StatusNoContent == 204
StatusUnauthorized == 401
StatusNotFound == 404
StatusInternalServerError == 500

(* ---------------------------- the remote ------------------------------- *)

Ops == 1 .. NumOps

\* Response bodies: a machine descriptor with its power flag, or text that
\* json.Unmarshal rejects.
Bodies == {"vm_on", "vm_off", "not_json"}

Statuses == {StatusOK, StatusAccepted, StatusNoContent, StatusUnauthorized,
             StatusNotFound, StatusInternalServerError}

\* What http.Client.Do can come back with: a transport error (no response),
\* or a response with a status and a body.
TransportFailure == [err |-> TRUE, status |-> 0, body |-> ""]
Replies == {TransportFailure}
           \cup [err : {FALSE}, status : Statuses, body : Bodies]

\* What the auth endpoint can come back with.  newSession does not look at the
\* status: whatever the body is becomes the session.
AuthReplies == {TransportFailure,
                [err |-> FALSE, status |-> StatusOK, body |-> "tok1"],
                [err |-> FALSE, status |-> StatusUnauthorized, body |-> "denied"]}

(* ------------------------------ errors --------------------------------- *)

\* Go error values, by what their text carries.
NoError == [kind |-> "nil", status |-> 0, body |-> ""]
Error(kind, status, body) == [kind |-> kind, status |-> status, body |-> body]

(* ------------------------------- state --------------------------------- *)

VARIABLES
    session,        \* client.session
    sessions,       \* var sessions sync.Mutex: 0 unlocked, else the op that locked it
    createPipeline, \* var createPipeline sync.Mutex: likewise
    pc,             \* where each operation is
    site,           \* which call of client.do the operation is in
    vmPower,        \* vm.VirtualMachine.Power of a create
    osNone,         \* vm.Image.Distribution == "none" of a create
    attempt,        \* i of the attempt loop of client.do
    doSends,        \* requests sent by the current (or last) call of client.do
    doReauths,      \* newSession calls made from the attempt loop of that call
    firstStatus,    \* status of the first response of that call (0: none yet)
    resp,           \* what the last call of client.do returned (response and error)
    result,         \* the error the operation returned (NoError: nil)
    waitFor,        \* the waitFor argument of the running waitForBigvState (0: none)
    d,              \* the schema.ResourceData of the operation
    polls,          \* iterations of the current wait loop that took the tick case
    elapsed,        \* seconds spent in the selects of the current wait loop
    payload,        \* the bigvVm an update marshals into its request
    gateTaken,      \* times the operation locked createPipeline
    sessionReqs,    \* session requests the operation sent to the auth endpoint
    sentHttp,       \* whether the operation has sent a request to the API
    inputOk,        \* whether the configuration the operation was called with is valid
    plan,           \* d.HasChange of power_on, cores, memory and d.Get("reboot") of an update
    op,             \* the resource function the operation is a call of
    found,          \* the bool resourceBigvVMExists returned
    calc,           \* a bigvVm before and after computeCoresToMemory
    auth,           \* the Authorization header client.do set on the operation's request
    lastDial,       \* what the last ssh.Dial of waitForVmSsh came back with
    refresh         \* the network interfaces of a descriptor and what resourceFromJson made of them

vars == <<session, sessions, createPipeline, pc, site, vmPower, osNone, attempt,
          doSends, doReauths, firstStatus, resp, result, waitFor, d, polls, elapsed, payload,
          gateTaken, sessionReqs, sentHttp, inputOk, plan, op, found, calc, auth, lastDial, refresh>>

(* --------------------------- pure functions ---------------------------- *)

Min(a, b) == IF a <= b THEN a ELSE b
Max(a, b) == IF a >= b THEN a ELSE b

\* expectedCores as the ceiling of memory/4096: a whole multiple of 4096 MiB
\* is not pushed up by one.
expectedCores_Ceiling(memory) == (memory + 4095) \div 4096

\* expectedCores as memory/4096 rounded to the nearest whole number.
expectedCores_Rounded(memory) == (memory + 2048) \div 4096

\* expectedCores with one more core per 2048 MiB.
expectedCores_PerTwoGiB(memory) == (memory \div 2048) + 1

\* expectedCores without the 0.01 that pushes the ceiling up by one.
expectedCores_Floor(memory) == memory \div 4096

\* int(math.Ceil(float64(memory/4096) + float64(0.01))): memory/4096 is Go's
\* integer division, so the ceiling is taken of a whole number plus 0.01.
expectedCores(memory) == (memory \div 4096) + 1

\* computeCoresToMemory that accepts any cores and memory given together.
computeCoresToMemory_NoCheck(v) ==
    IF v.Cores = 0 /\ v.Memory = 0
        THEN [ok |-> TRUE, Cores |-> 1, Memory |-> 1024, expected |-> 0]
    ELSE IF v.Cores = 0
        THEN [ok |-> TRUE, Cores |-> expectedCores(v.Memory), Memory |-> v.Memory,
              expected |-> 0]
    ELSE IF v.Memory = 0
        THEN [ok |-> TRUE, Cores |-> v.Cores,
              Memory |-> Max(1024, (v.Cores - 1) * 4096), expected |-> 0]
    ELSE [ok |-> TRUE, Cores |-> v.Cores, Memory |-> v.Memory, expected |-> 0]

\* computeCoresToMemory that derives 4096 MiB for every core.
computeCoresToMemory_MemoryPerCore(v) ==
    IF v.Cores = 0 /\ v.Memory = 0
        THEN [ok |-> TRUE, Cores |-> 1, Memory |-> 1024, expected |-> 0]
    ELSE IF v.Cores = 0
        THEN [ok |-> TRUE, Cores |-> expectedCores(v.Memory), Memory |-> v.Memory,
              expected |-> 0]
    ELSE IF v.Memory = 0
        THEN [ok |-> TRUE, Cores |-> v.Cores,
              Memory |-> Max(1024, v.Cores * 4096), expected |-> 0]
    ELSE IF expectedCores(v.Memory) # v.Cores
        THEN [ok |-> FALSE, Cores |-> v.Cores, Memory |-> v.Memory,
              expected |-> expectedCores(v.Memory)]
    ELSE [ok |-> TRUE, Cores |-> v.Cores, Memory |-> v.Memory, expected |-> 0]

\* computeCoresToMemory without its first case: with nothing set, the cores
\* are derived from the memory of 0.
computeCoresToMemory_NoDefaults(v) ==
    IF v.Cores = 0
        THEN [ok |-> TRUE, Cores |-> expectedCores(v.Memory), Memory |-> v.Memory,
              expected |-> 0]
    ELSE IF v.Memory = 0
        THEN [ok |-> TRUE, Cores |-> v.Cores,
              Memory |-> Max(1024, (v.Cores - 1) * 4096), expected |-> 0]
    ELSE IF expectedCores(v.Memory) # v.Cores
        THEN [ok |-> FALSE, Cores |-> v.Cores, Memory |-> v.Memory,
              expected |-> expectedCores(v.Memory)]
    ELSE [ok |-> TRUE, Cores |-> v.Cores, Memory |-> v.Memory, expected |-> 0]

\* bigvVm.computeCoresToMemory: the cores and memory it leaves in v, whether
\* it returned nil and, when it did not, the expected core count its error
\* names (0 when it returned nil).
computeCoresToMemory(v) ==
    IF v.Cores = 0 /\ v.Memory = 0
        THEN [ok |-> TRUE, Cores |-> 1, Memory |-> 1024, expected |-> 0]
    ELSE IF v.Cores = 0
        THEN [ok |-> TRUE, Cores |-> expectedCores(v.Memory), Memory |-> v.Memory,
              expected |-> 0]
    ELSE IF v.Memory = 0
        THEN [ok |-> TRUE, Cores |-> v.Cores,
              Memory |-> Max(1024, (v.Cores - 1) * 4096), expected |-> 0]
    ELSE IF expectedCores(v.Memory) # v.Cores
        THEN [ok |-> FALSE, Cores |-> v.Cores, Memory |-> v.Memory,
              expected |-> expectedCores(v.Memory)]
    ELSE [ok |-> TRUE, Cores |-> v.Cores, Memory |-> v.Memory, expected |-> 0]

\* The ResourceData of a resource that is not created yet, as create gets it.
NewResource(power) == [Id |-> "", power_on |-> power, root_password |-> ""]

\* What randomPassword can return; the program never looks into the value.
RandomPasswords == {"pw1", "pw2"}

\* resourceFromJson that takes the root password from the descriptor, which
\* has none.
resourceFromJson_DropsPassword(dd, body) ==
    IF body = "not_json"
        THEN [ok |-> FALSE, d |-> dd]
        ELSE [ok |-> TRUE, d |-> [Id |-> "vm1", power_on |-> (body = "vm_on"),
                                  root_password |-> ""]]

\* resourceFromJson: the ResourceData after it, and whether it returned nil.
\* It sets the id and the attributes of the descriptor; root_password is not
\* among them.
resourceFromJson(dd, body) ==
    IF body = "not_json"
        THEN [ok |-> FALSE, d |-> dd]
        ELSE [ok |-> TRUE, d |-> [Id |-> "vm1", power_on |-> (body = "vm_on"),
                                  root_password |-> dd.root_password]]

\* resourceFromJson from "if len(vm.Nics) > 0" on: the ipv4 and ipv6 it leaves
\* in the ResourceData dd, and whether it returned nil or the goroutine
\* panicked with an index out of range.  Ips[0] is read and stored before
\* Ips[1] is read.
resourceFromJsonNics(dd, nics) ==
    IF Len(nics) = 0
        THEN [outcome |-> "nil", ipv4 |-> dd.ipv4, ipv6 |-> dd.ipv6]
    ELSE IF Len(nics[1]) = 0
        THEN [outcome |-> "panic", ipv4 |-> dd.ipv4, ipv6 |-> dd.ipv6]
    ELSE IF Len(nics[1]) = 1
        THEN [outcome |-> "panic", ipv4 |-> nics[1][1], ipv6 |-> dd.ipv6]
    ELSE [outcome |-> "nil", ipv4 |-> nics[1][1], ipv6 |-> nics[1][2]]

\* The durations of the two timers one select of a wait loop creates, and
\* the case of the select that is taken: the timer that fires first (either
\* one when they fire together).
SelectCases(afterSeconds, tickSeconds) ==
    {c \in {"after", "tick"} :
        (IF c = "after" THEN afterSeconds ELSE tickSeconds)
            = Min(afterSeconds, tickSeconds)}

\* DoIteration that goes round again on a status of 500 and above.
DoIteration_RetryServerError(i, reply) ==
    IF reply.err
        THEN [next |-> "return", status |-> 0, body |-> "",
              err |-> Error("transport", 0, "")]
    ELSE IF reply.status >= 200 /\ reply.status < 500
        THEN [next |-> "return", status |-> reply.status, body |-> reply.body,
              err |-> NoError]
    ELSE [next |-> "continue", status |-> reply.status, body |-> reply.body,
          err |-> NoError]

\* DoIteration that goes round again on a transport error.
DoIteration_RetryTransportError(i, reply) ==
    IF reply.err
        THEN [next |-> "continue", status |-> 0, body |-> "", err |-> NoError]
    ELSE IF reply.status >= 200 /\ reply.status < 500
        THEN [next |-> "return", status |-> reply.status, body |-> reply.body,
              err |-> NoError]
    ELSE [next |-> "return", status |-> reply.status, body |-> reply.body,
          err |-> Error("bigv_status", reply.status, reply.body)]

\* DoIteration that reacquires the session and goes round again on every 401.
DoIteration_RetryUnauthorized(i, reply) ==
    IF reply.err
        THEN [next |-> "return", status |-> 0, body |-> "",
              err |-> Error("transport", 0, "")]
    ELSE IF reply.status = StatusUnauthorized
        THEN [next |-> "continue", status |-> reply.status, body |-> reply.body,
              err |-> NoError]
    ELSE IF reply.status >= 200 /\ reply.status < 500
        THEN [next |-> "return", status |-> reply.status, body |-> reply.body,
              err |-> NoError]
    ELSE [next |-> "return", status |-> reply.status, body |-> reply.body,
          err |-> Error("bigv_status", reply.status, reply.body)]

\* One iteration of the attempt loop of client.do, on the reply to its send:
\* whether do returns or goes round again, and what it returns.
DoIteration(i, reply) ==
    IF reply.err
        THEN [next |-> "return", status |-> 0, body |-> "",
              err |-> Error("transport", 0, "")]
    ELSE IF reply.status >= 200 /\ reply.status < 500
        THEN [next |-> "return", status |-> reply.status, body |-> reply.body,
              err |-> NoError]
    ELSE IF reply.status = StatusUnauthorized /\ i = 0
        THEN [next |-> "return", status |-> reply.status, body |-> reply.body,
              err |-> NoError]
    ELSE [next |-> "return", status |-> reply.status, body |-> reply.body,
          err |-> Error("bigv_status", reply.status, reply.body)]

\* sync.Mutex: Lock goes through when the mutex is unlocked; Unlock unlocks it
\* whoever locked it.  The value of a locked mutex names the operation that
\* locked it, which the mutex itself does not record.
Unlocked == 0
\* A Lock that goes through on a locked mutex.
CanLock_Always(mutex) == TRUE
CanLock(mutex) == mutex = Unlocked
Locked(p) == p
\* An Unlock that is left out.
Unlock_Missing(mutex) == mutex
Unlock(mutex) == Unlocked

\* A second look at the session that is left out: the operation that got the
\* lock requests a session whatever it finds.
StillNoSession_NotRechecked(s) == TRUE
\* The second look at the session, under the lock: whether there is still
\* none.
StillNoSession(s) == s = ""

(* ---------------------------- initial state ---------------------------- *)

NoHeader == [scheme |-> "", token |-> ""]
NoResponse == [status |-> 0, body |-> "", err |-> NoError]
NoPayload == [Cores |-> 0, Memory |-> 0, Power |-> FALSE, Reboot |-> FALSE]
NoPlan == [power_on |-> FALSE, cores |-> FALSE, memory |-> FALSE, reboot |-> FALSE]

InitClient ==
    /\ session = ""
    /\ sessions = Unlocked
    /\ createPipeline = Unlocked

InitOps ==
    /\ pc = [p \in Ops |-> "idle"]
    /\ site = [p \in Ops |-> "none"]
    /\ vmPower = [p \in Ops |-> FALSE]
    /\ osNone = [p \in Ops |-> FALSE]
    /\ attempt = [p \in Ops |-> 0]
    /\ doSends = [p \in Ops |-> 0]
    /\ doReauths = [p \in Ops |-> 0]
    /\ firstStatus = [p \in Ops |-> 0]
    /\ resp = [p \in Ops |-> NoResponse]
    /\ result = [p \in Ops |-> NoError]
    /\ waitFor = [p \in Ops |-> 0]
    /\ polls = [p \in Ops |-> 0]
    /\ elapsed = [p \in Ops |-> 0]
    /\ payload = [p \in Ops |-> NoPayload]
    /\ gateTaken = [p \in Ops |-> 0]
    /\ sessionReqs = [p \in Ops |-> 0]
    /\ sentHttp = [p \in Ops |-> FALSE]
    /\ inputOk = [p \in Ops |-> TRUE]
    /\ plan = [p \in Ops |-> NoPlan]
    /\ op = [p \in Ops |-> "none"]
    /\ found = [p \in Ops |-> FALSE]
    /\ auth = [p \in Ops |-> NoHeader]
    /\ lastDial = [p \in Ops |-> "none"]

\* A bigvVm that computeCoresToMemory has not been called on yet: in is the
\* value it was built with, v its value now, ok and expected what the last
\* call returned, calls the number of calls so far, first the value and the
\* outcome the first call left.
Uncalled(v) ==
    [in |-> v, v |-> v, ok |-> TRUE, expected |-> 0, calls |-> 0,
     first |-> [v |-> v, ok |-> TRUE]]

\* The addresses a network interface can list, and the lists of them: the
\* Ips of a bigvNic.
Addresses == {"ip4", "ip6"}
IpLists == UNION {[1 .. n -> Addresses] : n \in 0 .. MaxIps}

\* The Nics of a bigvServer, each interface given by its Ips.
NicLists == UNION {[1 .. n -> IpLists] : n \in 0 .. MaxNics}

\* The network interfaces of a parsed descriptor that resourceFromJson has
\* not looked at yet, and the ipv4 and ipv6 of a ResourceData without them.
Unrefreshed(nics) ==
    [nics |-> nics, called |-> FALSE, outcome |-> "nil", ipv4 |-> "", ipv6 |-> ""]

Init ==
    /\ InitClient
    /\ InitOps
    /\ d = [p \in Ops |-> NewResource(FALSE)]
    /\ calc = Uncalled([Cores |-> 0, Memory |-> 0])
    /\ refresh = Unrefreshed(<<>>)

(* ------------------------------ inputs --------------------------------- *)

\* Configured cores and memory (MiB) that operations are called with; 0 is
\* the unset attribute.
CoreInputs == {0, 1, 2, 3}
MemoryInputs == {0, 1024, 4095, 4096, 8192}

(* --------------------- returning from an operation --------------------- *)

\* The local state of an operation after a step: where it is, what it
\* returned, its ResourceData, the wait loop it is in.
Local(pcv, res, dd, wf) == [pc |-> pcv, result |-> res, d |-> dd, waitFor |-> wf]

\* AfterVmCreate that takes a 200 for an accepted submission as well.
AfterVmCreate_AcceptsOK(p, r) ==
    IF r.err # NoError
        THEN Local("returned", r.err, d[p], 0)
    ELSE IF r.status # StatusAccepted /\ r.status # StatusOK
        THEN Local("returned", Error("create_status", r.status, r.body), d[p], 0)
    ELSE Local("wait_select", NoError, d[p], waitForProvisioned)

\* resourceBigvVMCreate from the return of its client.do (after
\* createPipeline.Unlock()) to the entry of the first wait loop.
AfterVmCreate(p, r) ==
    IF r.err # NoError
        THEN Local("returned", r.err, d[p], 0)
    ELSE IF r.status # StatusAccepted
        THEN Local("returned", Error("create_status", r.status, r.body), d[p], 0)
    ELSE Local("wait_select", NoError, d[p], waitForProvisioned)

\* StateReached without the look at the status.
StateReached_AnyStatus(status, wf, powerOn) ==
    \/ wf = waitForProvisioned
    \/ wf = waitForPowered /\ powerOn

\* StateReached that takes a 200 for powered whatever the power flag says.
StateReached_IgnoresPower(status, wf, powerOn) ==
    /\ status = StatusOK
    /\ \/ wf = waitForProvisioned
       \/ wf = waitForPowered

\* Whether a poll that was answered with this status ends waitForBigvState
\* with success; powerOn is d.Get("power_on") after the refresh.
StateReached(status, wf, powerOn) ==
    /\ status = StatusOK
    /\ \/ wf = waitForProvisioned
       \/ wf = waitForPowered /\ powerOn

\* AfterPoll without the last look at the status: a status that is neither 200
\* nor 202 goes round again.
AfterPoll_IgnoresStatus(p, r) ==
    IF r.err # NoError
        THEN Local("returned", Error("health_check", r.err.status, r.err.body),
                   d[p], 0)
    ELSE LET parsed == resourceFromJson(d[p], r.body) IN
        IF ~parsed.ok
            THEN Local("returned", Error("json", 0, ""), d[p], 0)
        ELSE IF StateReached(r.status, waitFor[p], parsed.d.power_on)
            THEN Local(IF waitFor[p] = waitForProvisioned THEN "provisioned"
                                                          ELSE "powered",
                       NoError, parsed.d, 0)
        ELSE Local("wait_select", NoError, parsed.d, waitFor[p])

\* The tick case of waitForBigvState from the return of its client.do.
AfterPoll(p, r) ==
    IF r.err # NoError
        THEN Local("returned", Error("health_check", r.err.status, r.err.body),
                   d[p], 0)
    ELSE LET parsed == resourceFromJson(d[p], r.body) IN
        IF ~parsed.ok
            THEN Local("returned", Error("json", 0, ""), d[p], 0)
        ELSE IF StateReached(r.status, waitFor[p], parsed.d.power_on)
            THEN Local(IF waitFor[p] = waitForProvisioned THEN "provisioned"
                                                          ELSE "powered",
                       NoError, parsed.d, 0)
        ELSE IF r.status # StatusAccepted /\ r.status # StatusOK
            THEN Local("returned", Error("health_status", r.status, ""),
                       parsed.d, 0)
        ELSE Local("wait_select", NoError, parsed.d, waitFor[p])

\* resourceBigvVMUpdate from the return of its client.do.
AfterUpdate(p, r) ==
    IF r.err # NoError
        THEN Local("returned", r.err, d[p], 0)
    ELSE IF r.status # StatusOK
        THEN Local("returned", Error("update_status", r.status, ""), d[p], 0)
    ELSE LET parsed == resourceFromJson(d[p], r.body) IN
        IF ~parsed.ok
            THEN Local("returned", Error("json", 0, ""), d[p], 0)
            ELSE Local("returned", NoError, parsed.d, 0)

\* ExistsResult that takes any status below 400 for a machine that exists.
ExistsResult_AnySuccess(r) ==
    IF r.err # NoError
        THEN [found |-> FALSE, err |-> r.err]
    ELSE IF r.status < 400
        THEN [found |-> TRUE, err |-> NoError]
    ELSE IF r.status = StatusNotFound
        THEN [found |-> FALSE, err |-> NoError]
    ELSE [found |-> FALSE, err |-> Error("exists_status", r.status, "")]

\* What resourceBigvVMExists returns, from the return of its client.do.
ExistsResult(r) ==
    IF r.err # NoError
        THEN [found |-> FALSE, err |-> r.err]
    ELSE IF r.status = StatusOK \/ r.status = StatusAccepted
        THEN [found |-> TRUE, err |-> NoError]
    ELSE IF r.status = StatusNotFound
        THEN [found |-> FALSE, err |-> NoError]
    ELSE [found |-> FALSE, err |-> Error("exists_status", r.status, "")]

\* resourceBigvVMExists from the return of its client.do.
AfterExists(p, r) == Local("returned", ExistsResult(r).err, d[p], 0)

\* DeleteResult that takes 200 and 202 for a deletion as well.
DeleteResult_AnyAccepted(r) ==
    IF r.err # NoError
        THEN r.err
    ELSE IF r.status \notin {StatusOK, StatusAccepted, StatusNoContent}
        THEN Error("delete_status", r.status, "")
    ELSE NoError

\* The error resourceBigvVMDelete returns, from the return of its client.do.
DeleteResult(r) ==
    IF r.err # NoError
        THEN r.err
    ELSE IF r.status # StatusNoContent
        THEN Error("delete_status", r.status, "")
    ELSE NoError

\* resourceBigvVMDelete from the return of its client.do.
AfterDelete(p, r) == Local("returned", DeleteResult(r), d[p], 0)

\* AfterRead that takes a 202 for a good read as well.
AfterRead_AcceptsAccepted(p, r) ==
    IF r.err # NoError
        THEN Local("returned", r.err, d[p], 0)
    ELSE IF r.status # StatusOK /\ r.status # StatusAccepted
        THEN Local("returned", Error("read_status", r.status, ""), d[p], 0)
    ELSE LET parsed == resourceFromJson(d[p], r.body) IN
        IF ~parsed.ok
            THEN Local("returned", Error("json", 0, ""), d[p], 0)
            ELSE Local("returned", NoError, parsed.d, 0)

\* resourceBigvVMRead from the return of its client.do.
AfterRead(p, r) ==
    IF r.err # NoError
        THEN Local("returned", r.err, d[p], 0)
    ELSE IF r.status # StatusOK
        THEN Local("returned", Error("read_status", r.status, ""), d[p], 0)
    ELSE LET parsed == resourceFromJson(d[p], r.body) IN
        IF ~parsed.ok
            THEN Local("returned", Error("json", 0, ""), d[p], 0)
            ELSE Local("returned", NoError, parsed.d, 0)

\* client.do returns r to the call site of operation p, and the caller runs
\* on to its next wait or return.  The create call site unlocks
\* createPipeline first, whatever do returned.
DoReturn(p, r) ==
    LET after == CASE site[p] = "vm_create" -> AfterVmCreate(p, r)
                   [] site[p] = "poll" -> AfterPoll(p, r)
                   [] site[p] = "update" -> AfterUpdate(p, r)
                   [] site[p] = "exists" -> AfterExists(p, r)
                   [] site[p] = "delete" -> AfterDelete(p, r)
                   [] site[p] = "read" -> AfterRead(p, r)
    IN  /\ resp' = [resp EXCEPT ![p] = r]
        /\ found' = IF site[p] = "exists"
                       THEN [found EXCEPT ![p] = ExistsResult(r).found]
                       ELSE found
        /\ pc' = [pc EXCEPT ![p] = after.pc]
        /\ result' = [result EXCEPT ![p] = after.result]
        /\ d' = [d EXCEPT ![p] = after.d]
        /\ waitFor' = [waitFor EXCEPT ![p] = after.waitFor]
        /\ site' = [site EXCEPT ![p] = "none"]
        /\ createPipeline' = IF site[p] = "vm_create" THEN Unlock(createPipeline)
                                                        ELSE createPipeline
        /\ polls' = IF site[p] = "vm_create" THEN [polls EXCEPT ![p] = 0] ELSE polls
        /\ elapsed' = IF site[p] = "vm_create" THEN [elapsed EXCEPT ![p] = 0]
                                                 ELSE elapsed

(* ------------------------------ client.do ------------------------------ *)

\* An Authorization header made of the session do found when it was entered.
AuthorizationHeader_FromEntry(atEntry, atSend) ==
    [scheme |-> "Bearer", token |-> atEntry]

\* The Authorization header client.do sets once, before its attempt loop:
\* atEntry is the session do found at its first look, atSend the session at
\* the time the header is set.
AuthorizationHeader(atEntry, atSend) == [scheme |-> "Bearer", token |-> atSend]

\* client.do up to its first look at the session; when there is a session,
\* up to the headers that follow.
DoEntry(p) ==
    /\ pc[p] = "do_entry"
    /\ attempt' = [attempt EXCEPT ![p] = 0]
    /\ doSends' = [doSends EXCEPT ![p] = 0]
    /\ doReauths' = [doReauths EXCEPT ![p] = 0]
    /\ firstStatus' = [firstStatus EXCEPT ![p] = 0]
    /\ pc' = [pc EXCEPT ![p] = IF session = "" THEN "do_lock" ELSE "do_send"]
    /\ auth' = IF session = ""
                 THEN auth
                 ELSE [auth EXCEPT ![p] = AuthorizationHeader(session, session)]
    /\ UNCHANGED <<session, sessions, createPipeline, site, vmPower, osNone, resp,
                   result, waitFor, d, polls, elapsed, payload, gateTaken,
                   sessionReqs, sentHttp, inputOk, plan,
                   op, found, calc, lastDial, refresh>>

\* sessions.Lock(), the second look at the session and, when there is still
\* none, the send of newSession's request.
DoLock(p) ==
    /\ pc[p] = "do_lock"
    /\ CanLock(sessions)
    /\ sessions' = Locked(p)
    /\ IF StillNoSession(session)
          THEN /\ pc' = [pc EXCEPT ![p] = "new_session"]
               /\ sessionReqs' = [sessionReqs EXCEPT ![p] = @ + 1]
          ELSE /\ pc' = [pc EXCEPT ![p] = "do_unlock"]
               /\ UNCHANGED sessionReqs
    /\ UNCHANGED <<session, createPipeline, site, vmPower, osNone, attempt, doSends,
                   doReauths, firstStatus, resp, result, waitFor, d, polls, elapsed,
                   payload, gateTaken, sentHttp, inputOk, plan,
                   op, found, calc, auth, lastDial, refresh>>

\* What newSession does with the reply a: the session it leaves and whether
\* it returns an error.
newSession(a) ==
    IF a.err THEN [ok |-> FALSE, session |-> session]
             ELSE [ok |-> TRUE, session |-> a.body]

\* The auth endpoint answers newSession, called under the lock.  On an error
\* do returns at once.
NewSessionReply(p) ==
    /\ pc[p] = "new_session"
    /\ \E a \in AuthReplies :
          LET ns == newSession(a) IN
          /\ session' = ns.session
          /\ IF ns.ok
                THEN /\ pc' = [pc EXCEPT ![p] = "do_unlock"]
                     /\ UNCHANGED <<createPipeline, site, resp, result, waitFor, d,
                                    polls, elapsed, found>>
                ELSE DoReturn(p, [status |-> 0, body |-> "",
                                  err |-> Error("transport", 0, "")])
    /\ UNCHANGED <<sessions, vmPower, osNone, attempt, doSends, doReauths,
                   firstStatus, payload, gateTaken, sessionReqs, sentHttp, inputOk,
                   plan, op, calc, auth, lastDial, refresh>>

\* sessions.Unlock(), and the headers and the body copy that follow it.
DoUnlock(p) ==
    /\ pc[p] = "do_unlock"
    /\ sessions' = Unlock(sessions)
    /\ pc' = [pc EXCEPT ![p] = "do_send"]
    /\ auth' = [auth EXCEPT ![p] = AuthorizationHeader("", session)]
    /\ UNCHANGED <<session, createPipeline, site, vmPower, osNone, attempt, doSends,
                   doReauths, firstStatus, resp, result, waitFor, d, polls, elapsed,
                   payload, gateTaken, sessionReqs, sentHttp, inputOk, plan,
                   op, found, calc, lastDial, refresh>>

\* One pass of the attempt loop: the request is sent and answered.  When the
\* pass ends in continue, newSession has been called without the lock and its
\* error dropped.
DoAttempt(p) ==
    /\ pc[p] = "do_send"
    /\ IF attempt[p] >= doAttempts
          THEN /\ DoReturn(p, [status |-> 0, body |-> "",
                               err |-> Error("unexpected", 0, "")])
               /\ UNCHANGED <<session, attempt, doSends, doReauths, firstStatus,
                              sessionReqs, sentHttp>>
          ELSE \E reply \in Replies :
               LET out == DoIteration(attempt[p], reply) IN
               /\ doSends' = [doSends EXCEPT ![p] = @ + 1]
               /\ sentHttp' = [sentHttp EXCEPT ![p] = TRUE]
               /\ firstStatus' = [firstStatus EXCEPT ![p] =
                                     IF attempt[p] = 0 THEN reply.status ELSE @]
               /\ IF out.next = "return"
                     THEN /\ DoReturn(p, [status |-> out.status,
                                          body |-> out.body, err |-> out.err])
                          /\ UNCHANGED <<session, attempt, doReauths, sessionReqs>>
                     ELSE /\ \E a \in AuthReplies :
                                session' = newSession(a).session
                          /\ attempt' = [attempt EXCEPT ![p] = @ + 1]
                          /\ doReauths' = [doReauths EXCEPT ![p] = @ + 1]
                          /\ sessionReqs' = [sessionReqs EXCEPT ![p] = @ + 1]
                          /\ UNCHANGED <<createPipeline, pc, site, resp, result,
                                         waitFor, d, polls, elapsed, found>>
    /\ UNCHANGED <<sessions, vmPower, osNone, payload, gateTaken, inputOk, plan,
                   op, calc, auth, lastDial, refresh>>

(* ------------------------- resourceBigvVMCreate ------------------------ *)

\* resourceBigvVMCreate without its validation.
CreateValidation_Missing(cores, memory, none, sshKey) == NoError

\* The validation resourceBigvVMCreate runs before it builds its request:
\* computeCoresToMemory, then the check of the ssh key against the os.
CreateValidation(cores, memory, none, sshKey) ==
    IF ~computeCoresToMemory([Cores |-> cores, Memory |-> memory]).ok
        THEN Error("validation", 0, "cores")
    ELSE IF sshKey /\ none
        THEN Error("validation", 0, "ssh_public_key")
    ELSE NoError

\* Whether cores and memory, both set, break the rule computeCoresToMemory
\* checks them against.
ViolatesCapacityRule(cores, memory) ==
    cores # 0 /\ memory # 0 /\ cores # expectedCores(memory)

\* resourceBigvVMCreate up to createPipeline.Lock(): the request is built
\* from the configuration and validated.
resourceBigvVMCreate(p) ==
    /\ pc[p] = "idle"
    /\ d[p].Id = ""
    /\ \E cores \in CoreInputs, memory \in MemoryInputs,
          power \in BOOLEAN, none \in BOOLEAN, sshKey \in BOOLEAN,
          password \in RandomPasswords :
          LET e == CreateValidation(cores, memory, none, sshKey) IN
          /\ op' = [op EXCEPT ![p] = "create"]
          /\ vmPower' = [vmPower EXCEPT ![p] = power]
          /\ osNone' = [osNone EXCEPT ![p] = none]
          /\ d' = [d EXCEPT ![p] =
                      [NewResource(power) EXCEPT !.root_password = password]]
          /\ inputOk' = [inputOk EXCEPT ![p] =
                            ~ViolatesCapacityRule(cores, memory) /\ ~(sshKey /\ none)]
          /\ result' = [result EXCEPT ![p] = e]
          /\ pc' = [pc EXCEPT ![p] = IF e # NoError THEN "returned"
                                                    ELSE "lock_pipeline"]
    /\ UNCHANGED <<session, sessions, createPipeline, site, attempt, doSends,
                   doReauths, firstStatus, resp, waitFor, polls, elapsed, payload,
                   gateTaken, sessionReqs, sentHttp, plan, found, calc, auth, lastDial, refresh>>

\* createPipeline.Lock() and the call of client.do with the vm_create request.
LockCreatePipeline(p) ==
    /\ pc[p] = "lock_pipeline"
    /\ CanLock(createPipeline)
    /\ createPipeline' = Locked(p)
    /\ gateTaken' = [gateTaken EXCEPT ![p] = @ + 1]
    /\ pc' = [pc EXCEPT ![p] = "do_entry"]
    /\ site' = [site EXCEPT ![p] = "vm_create"]
    /\ UNCHANGED <<session, sessions, vmPower, osNone, attempt, doSends, doReauths,
                   firstStatus, resp, result, waitFor, d, polls, elapsed, payload,
                   sessionReqs, sentHttp, inputOk, plan,
                   op, found, calc, auth, lastDial, refresh>>

\* One select of waitForBigvState: both timers are created anew, the one that
\* fires first decides.  The after case returns the timeout error; the tick
\* case calls client.do with the read request.
waitForBigvState(p) ==
    /\ pc[p] = "wait_select"
    /\ \E c \in SelectCases(waitForVM, vmCheckInterval) :
          /\ elapsed' = [elapsed EXCEPT ![p] = @ + Min(waitForVM, vmCheckInterval)]
          /\ IF c = "after"
                THEN /\ pc' = [pc EXCEPT ![p] = "returned"]
                     /\ result' = [result EXCEPT ![p] = Error("timeout", 0, "")]
                     /\ waitFor' = [waitFor EXCEPT ![p] = 0]
                     /\ UNCHANGED <<site, polls>>
                ELSE /\ pc' = [pc EXCEPT ![p] = "do_entry"]
                     /\ site' = [site EXCEPT ![p] = "poll"]
                     /\ polls' = [polls EXCEPT ![p] = @ + 1]
                     /\ UNCHANGED <<result, waitFor>>
    /\ UNCHANGED <<session, sessions, createPipeline, vmPower, osNone, attempt,
                   doSends, doReauths, firstStatus, resp, d, payload, gateTaken,
                   sessionReqs, sentHttp, inputOk, plan,
                   op, found, calc, auth, lastDial, refresh>>

\* AfterProvisioned that waits for powered whether or not power_on was
\* requested.
AfterProvisioned_IgnoresPower(p) ==
    /\ pc[p] = "provisioned"
    /\ pc' = [pc EXCEPT ![p] = "wait_select"]
    /\ waitFor' = [waitFor EXCEPT ![p] = waitForPowered]
    /\ polls' = [polls EXCEPT ![p] = 0]
    /\ elapsed' = [elapsed EXCEPT ![p] = 0]
    /\ UNCHANGED <<session, sessions, createPipeline, site, vmPower, osNone, attempt,
                   doSends, doReauths, firstStatus, resp, result, d, payload,
                   gateTaken, sessionReqs, sentHttp, inputOk, plan,
                   op, found, calc, auth, lastDial, refresh>>

\* resourceBigvVMCreate after the wait for provisioned returned nil.
AfterProvisioned(p) ==
    /\ pc[p] = "provisioned"
    /\ IF vmPower[p]
          THEN /\ pc' = [pc EXCEPT ![p] = "wait_select"]
               /\ waitFor' = [waitFor EXCEPT ![p] = waitForPowered]
               /\ polls' = [polls EXCEPT ![p] = 0]
               /\ elapsed' = [elapsed EXCEPT ![p] = 0]
          ELSE /\ pc' = [pc EXCEPT ![p] = "returned"]
               /\ UNCHANGED <<waitFor, polls, elapsed>>
    /\ UNCHANGED <<session, sessions, createPipeline, site, vmPower, osNone, attempt,
                   doSends, doReauths, firstStatus, resp, result, d, payload,
                   gateTaken, sessionReqs, sentHttp, inputOk, plan,
                   op, found, calc, auth, lastDial, refresh>>

\* resourceBigvVMCreate after the wait for powered returned nil.
AfterPowered(p) ==
    /\ pc[p] = "powered"
    /\ IF ~osNone[p]
          THEN /\ pc' = [pc EXCEPT ![p] = "ssh_select"]
               /\ polls' = [polls EXCEPT ![p] = 0]
               /\ elapsed' = [elapsed EXCEPT ![p] = 0]
          ELSE /\ pc' = [pc EXCEPT ![p] = "returned"]
               /\ UNCHANGED <<polls, elapsed>>
    /\ UNCHANGED <<session, sessions, createPipeline, site, vmPower, osNone, attempt,
                   doSends, doReauths, firstStatus, resp, result, waitFor, d, payload,
                   gateTaken, sessionReqs, sentHttp, inputOk, plan,
                   op, found, calc, auth, lastDial, refresh>>

\* What ssh.Dial can come back with.
DialOutcomes == {"connected", "connection refused", "other error"}

\* A DialStep that gives up on an error other than "connection refused".
DialStep_FailsOnOtherError(dial) ==
    IF dial = "connected" THEN "return"
    ELSE IF dial = "connection refused" THEN "continue"
    ELSE "fail"

\* What the tick case of waitForVmSsh does with the outcome of its ssh.Dial:
\* it returns nil, goes round again, or fails with the error.
DialStep(dial) ==
    IF dial = "connected" THEN "return"
    ELSE IF dial = "connection refused" THEN "continue"
    ELSE "continue"

\* One select of waitForVmSsh, with the ssh.Dial of its tick case.
waitForVmSsh(p) ==
    /\ pc[p] = "ssh_select"
    /\ \E c \in SelectCases(waitForVM, vmCheckInterval) :
          /\ elapsed' = [elapsed EXCEPT ![p] = @ + Min(waitForVM, vmCheckInterval)]
          /\ IF c = "after"
                THEN /\ pc' = [pc EXCEPT ![p] = "returned"]
                     /\ result' = [result EXCEPT ![p] = Error("ssh_timeout", 0, "")]
                     /\ UNCHANGED <<polls, lastDial>>
                ELSE /\ polls' = [polls EXCEPT ![p] = @ + 1]
                     /\ \E dial \in DialOutcomes :
                           /\ lastDial' = [lastDial EXCEPT ![p] = dial]
                           /\ pc' = [pc EXCEPT ![p] =
                                        IF DialStep(dial) = "continue"
                                           THEN "ssh_select" ELSE "returned"]
                           /\ result' = IF DialStep(dial) = "fail"
                                            THEN [result EXCEPT ![p] =
                                                     Error("ssh", 0, dial)]
                                            ELSE result
    /\ UNCHANGED <<session, sessions, createPipeline, site, vmPower, osNone, attempt,
                   doSends, doReauths, firstStatus, resp, waitFor, d, payload,
                   gateTaken, sessionReqs, sentHttp, inputOk, plan,
                   op, found, calc, auth, refresh>>

(* ------------------------- resourceBigvVMUpdate ------------------------ *)

\* The ResourceData of a resource that exists, as update gets it.
ExistingResource(power) ==
    [Id |-> "vm1", power_on |-> power, root_password |-> "pw1"]

\* UpdateVm without the restart a change of cores or memory forces.
UpdateVm_NoForcedRestart(has, powerOn, cores, memory) ==
    LET resize == has.cores \/ has.memory IN
    [Cores |-> IF resize THEN cores ELSE 0,
     Memory |-> IF resize THEN memory ELSE 0,
     Power |-> IF has.power_on THEN powerOn ELSE FALSE,
     Reboot |-> IF has.power_on THEN has.reboot ELSE FALSE]

\* UpdateVm that forces the restart even when power_on changed.
UpdateVm_AlwaysRestart(has, powerOn, cores, memory) ==
    LET resize == has.cores \/ has.memory IN
    [Cores |-> IF resize THEN cores ELSE 0,
     Memory |-> IF resize THEN memory ELSE 0,
     Power |-> IF resize THEN FALSE
               ELSE IF has.power_on THEN powerOn ELSE FALSE,
     Reboot |-> IF resize THEN TRUE
                ELSE IF has.power_on THEN has.reboot ELSE FALSE]

\* The bigvVm resourceBigvVMUpdate builds before it validates it.  has holds
\* d.HasChange of power_on, cores and memory and d.Get("reboot"); powerOn,
\* cores and memory are what d.Get returns for them.
UpdateVm(has, powerOn, cores, memory) ==
    LET resize == has.cores \/ has.memory IN
    [Cores |-> IF resize THEN cores ELSE 0,
     Memory |-> IF resize THEN memory ELSE 0,
     Power |-> IF resize /\ ~has.power_on THEN FALSE
               ELSE IF has.power_on THEN powerOn ELSE FALSE,
     Reboot |-> IF resize /\ ~has.power_on THEN TRUE
                ELSE IF has.power_on THEN has.reboot ELSE FALSE]

\* resourceBigvVMUpdate up to its call of client.do.
resourceBigvVMUpdate(p) ==
    /\ pc[p] = "idle"
    /\ d[p].Id # ""
    /\ \E has \in [power_on : BOOLEAN, cores : BOOLEAN, memory : BOOLEAN,
                   reboot : BOOLEAN],
          cores \in CoreInputs, memory \in MemoryInputs :
          LET vm == UpdateVm(has, d[p].power_on, cores, memory)
              v == computeCoresToMemory(vm)
          IN  /\ op' = [op EXCEPT ![p] = "update"]
              /\ plan' = [plan EXCEPT ![p] = has]
              /\ inputOk' = [inputOk EXCEPT ![p] =
                                ~ViolatesCapacityRule(vm.Cores, vm.Memory)]
              /\ IF ~v.ok
                    THEN /\ pc' = [pc EXCEPT ![p] = "returned"]
                         /\ result' = [result EXCEPT ![p] =
                                          Error("validation", 0, "cores")]
                         /\ UNCHANGED <<site, payload>>
                    ELSE /\ pc' = [pc EXCEPT ![p] = "do_entry"]
                         /\ site' = [site EXCEPT ![p] = "update"]
                         /\ payload' = [payload EXCEPT ![p] =
                                           [Cores |-> v.Cores, Memory |-> v.Memory,
                                            Power |-> vm.Power, Reboot |-> vm.Reboot]]
                         /\ UNCHANGED result
    /\ UNCHANGED <<session, sessions, createPipeline, vmPower, osNone, attempt,
                   doSends, doReauths, firstStatus, resp, waitFor, d, polls, elapsed,
                   gateTaken, sessionReqs, sentHttp, found, calc, auth, lastDial, refresh>>

(* ------- resourceBigvVMExists, resourceBigvVMRead, resourceBigvVMDelete ------- *)

\* resourceBigvVMExists up to its call of client.do with the GET request.
resourceBigvVMExists(p) ==
    /\ pc[p] = "idle"
    /\ d[p].Id # ""
    /\ op' = [op EXCEPT ![p] = "exists"]
    /\ pc' = [pc EXCEPT ![p] = "do_entry"]
    /\ site' = [site EXCEPT ![p] = "exists"]
    /\ UNCHANGED <<session, sessions, createPipeline, vmPower, osNone, attempt,
                   doSends, doReauths, firstStatus, resp, result, waitFor, d, polls,
                   elapsed, payload, gateTaken, sessionReqs, sentHttp, inputOk, plan,
                   found, calc, auth, lastDial, refresh>>

\* resourceBigvVMRead up to its call of client.do with the GET request.
resourceBigvVMRead(p) ==
    /\ pc[p] = "idle"
    /\ d[p].Id # ""
    /\ op' = [op EXCEPT ![p] = "read"]
    /\ pc' = [pc EXCEPT ![p] = "do_entry"]
    /\ site' = [site EXCEPT ![p] = "read"]
    /\ UNCHANGED <<session, sessions, createPipeline, vmPower, osNone, attempt,
                   doSends, doReauths, firstStatus, resp, result, waitFor, d, polls,
                   elapsed, payload, gateTaken, sessionReqs, sentHttp, inputOk, plan,
                   found, calc, auth, lastDial, refresh>>

\* resourceBigvVMDelete up to its call of client.do with the DELETE request.
resourceBigvVMDelete(p) ==
    /\ pc[p] = "idle"
    /\ d[p].Id # ""
    /\ op' = [op EXCEPT ![p] = "delete"]
    /\ pc' = [pc EXCEPT ![p] = "do_entry"]
    /\ site' = [site EXCEPT ![p] = "delete"]
    /\ UNCHANGED <<session, sessions, createPipeline, vmPower, osNone, attempt,
                   doSends, doReauths, firstStatus, resp, result, waitFor, d, polls,
                   elapsed, payload, gateTaken, sessionReqs, sentHttp, inputOk, plan,
                   found, calc, auth, lastDial, refresh>>

(* --------------------------- specifications ---------------------------- *)

\* Concurrent creates against one client; each wait loop is followed for
\* MaxPolls polls.
BoundedWaitForBigvState(p) == polls[p] < MaxPolls /\ waitForBigvState(p)
BoundedWaitForVmSsh(p) == polls[p] < MaxPolls /\ waitForVmSsh(p)

Next ==
    \E p \in Ops :
        \/ resourceBigvVMCreate(p)
        \/ LockCreatePipeline(p)
        \/ DoEntry(p)
        \/ DoLock(p)
        \/ NewSessionReply(p)
        \/ DoUnlock(p)
        \/ DoAttempt(p)
        \/ BoundedWaitForBigvState(p)
        \/ AfterProvisioned(p)
        \/ AfterPowered(p)
        \/ BoundedWaitForVmSsh(p)

Spec == Init /\ [][Next]_vars

\* One operation (a create, update, exists check, read or delete) alone on
\* the client; each wait loop is followed until MaxElapsed seconds have passed
\* in it.
TimedWaitForBigvState(p) == elapsed[p] < MaxElapsed /\ waitForBigvState(p)
TimedWaitForVmSsh(p) == elapsed[p] < MaxElapsed /\ waitForVmSsh(p)

InitOne ==
    /\ InitClient
    /\ InitOps
    /\ \E power \in BOOLEAN :
          d \in {[p \in Ops |-> NewResource(FALSE)],
                 [p \in Ops |-> IF p = 1 THEN ExistingResource(power)
                                         ELSE NewResource(FALSE)]}
    /\ calc = Uncalled([Cores |-> 0, Memory |-> 0])
    /\ refresh = Unrefreshed(<<>>)

NextOne ==
    \/ resourceBigvVMCreate(1)
    \/ resourceBigvVMUpdate(1)
    \/ resourceBigvVMExists(1)
    \/ resourceBigvVMRead(1)
    \/ resourceBigvVMDelete(1)
    \/ LockCreatePipeline(1)
    \/ DoEntry(1)
    \/ DoLock(1)
    \/ NewSessionReply(1)
    \/ DoUnlock(1)
    \/ DoAttempt(1)
    \/ TimedWaitForBigvState(1)
    \/ AfterProvisioned(1)
    \/ AfterPowered(1)
    \/ TimedWaitForVmSsh(1)

SpecOne == InitOne /\ [][NextOne]_vars

\* Concurrent exists checks and reads of machines that exist, on one client
\* that has no session yet: unlike creates, which createPipeline lets into
\* client.do one at a time, these meet at the session.
InitShared ==
    /\ InitClient
    /\ InitOps
    /\ d \in [Ops -> {ExistingResource(TRUE), ExistingResource(FALSE)}]
    /\ calc = Uncalled([Cores |-> 0, Memory |-> 0])
    /\ refresh = Unrefreshed(<<>>)

NextShared ==
    \E p \in Ops :
        \/ resourceBigvVMExists(p)
        \/ resourceBigvVMRead(p)
        \/ DoEntry(p)
        \/ DoLock(p)
        \/ NewSessionReply(p)
        \/ DoUnlock(p)
        \/ DoAttempt(p)

SpecShared == InitShared /\ [][NextShared]_vars

\* computeCoresToMemory alone: a bigvVm with any cores and memory within the
\* bounds (0: unset), and the method called on it.
InitCores ==
    /\ InitClient
    /\ InitOps
    /\ d = [p \in Ops |-> NewResource(FALSE)]
    /\ \E cores \in 0 .. MaxCores, memory \in 0 .. MaxMemory :
          calc = Uncalled([Cores |-> cores, Memory |-> memory])
    /\ refresh = Unrefreshed(<<>>)

\* v.computeCoresToMemory() on the bigvVm as it stands.
CallComputeCoresToMemory ==
    /\ calc.calls < MaxCalls
    /\ LET r == computeCoresToMemory(calc.v) IN
          calc' = [in |-> calc.in,
                   v |-> [Cores |-> r.Cores, Memory |-> r.Memory],
                   ok |-> r.ok, expected |-> r.expected,
                   calls |-> calc.calls + 1,
                   first |-> IF calc.calls = 0
                                THEN [v |-> [Cores |-> r.Cores, Memory |-> r.Memory],
                                      ok |-> r.ok]
                                ELSE calc.first]
    /\ UNCHANGED <<session, sessions, createPipeline, pc, site, vmPower, osNone,
                   attempt, doSends, doReauths, firstStatus, resp, result, waitFor,
                   d, polls, elapsed, payload, gateTaken, sessionReqs, sentHttp,
                   inputOk, plan, op, found, auth, lastDial, refresh>>

NextCores == CallComputeCoresToMemory

SpecCores == InitCores /\ [][NextCores]_vars

\* The network interface part of resourceFromJson alone: a parsed descriptor
\* with any network interfaces within the bounds, and the function applied to
\* it.
InitJson ==
    /\ InitClient
    /\ InitOps
    /\ d = [p \in Ops |-> NewResource(FALSE)]
    /\ calc = Uncalled([Cores |-> 0, Memory |-> 0])
    /\ \E nics \in NicLists : refresh = Unrefreshed(nics)

\* resourceFromJson from its look at vm.Nics on.
CallResourceFromJson ==
    /\ ~refresh.called
    /\ LET r == resourceFromJsonNics(refresh, refresh.nics) IN
          refresh' = [nics |-> refresh.nics, called |-> TRUE,
                      outcome |-> r.outcome, ipv4 |-> r.ipv4, ipv6 |-> r.ipv6]
    /\ UNCHANGED <<session, sessions, createPipeline, pc, site, vmPower, osNone,
                   attempt, doSends, doReauths, firstStatus, resp, result, waitFor,
                   d, polls, elapsed, payload, gateTaken, sessionReqs, sentHttp,
                   inputOk, plan, op, found, calc, auth, lastDial>>

NextJson == CallResourceFromJson

SpecJson == InitJson /\ [][NextJson]_vars

(* ------------------------------- claims -------------------------------- *)

DoPcs == {"do_entry", "do_lock", "new_session", "do_unlock", "do_send"}

\* The last call of client.do by p has returned.
DoReturned(p) == pc[p] \notin DoPcs /\ firstStatus[p] # 0

\* p is inside a waitForBigvState loop.
InWaitForBigvState(p) == waitFor[p] # 0

\* The operation did nothing on the network.
NoNetwork(p) ==
    /\ gateTaken[p] = 0
    /\ createPipeline # p
    /\ sessionReqs[p] = 0
    /\ ~sentHttp[p]

\* C1: a call of client.do whose first response has status 401 has, when it
\* returns, made exactly one session reacquisition and sent the request
\* exactly twice.
C1_ReauthAndRetryOn401 ==
    \A p \in Ops :
        (DoReturned(p) /\ firstStatus[p] = StatusUnauthorized)
            => (doReauths[p] = 1 /\ doSends[p] = 2)

\* C2: no waitForBigvState loop is still running once more than waitForVM
\* seconds have passed in it since its entry: it has ended, with the timeout
\* error at the latest.
C2_WaitEndsAtDeadline ==
    \A p \in Ops : InWaitForBigvState(p) => elapsed[p] <= waitForVM

\* C3: at most one operation is inside the client.do call of
\* resourceBigvVMCreate at any time.
C3_OneCreateSubmission ==
    Cardinality({p \in Ops : site[p] = "vm_create"}) <= 1

C3_Witness ==
    \E p, q \in Ops :
        /\ p # q
        /\ site[p] = "vm_create" /\ pc[p] = "do_send"
        /\ pc[q] = "lock_pipeline"

\* C4: an operation holds createPipeline only while it is inside the
\* client.do call of its create submission: not while it validates, polls or
\* waits for ssh, and not after it returned.
C4_GateOnlyAroundSubmission ==
    \A p \in Ops : createPipeline = p => site[p] = "vm_create"

\* One operation submits its create while another is still polling.
C4_Witness ==
    \E p, q \in Ops :
        /\ p # q
        /\ InWaitForBigvState(p) /\ polls[p] > 0
        /\ site[q] = "vm_create" /\ createPipeline = q /\ pc[q] = "do_send"

\* C5: once a create has returned an error, no other create is kept waiting
\* at createPipeline.Lock() or at sessions.Lock() by a lock the failed create
\* left locked.
C5_FailedCreateBlocksNobody ==
    \A p, q \in Ops :
        (pc[p] = "returned" /\ result[p] # NoError /\ q # p)
            => /\ pc[q] = "lock_pipeline" => createPipeline # p
               /\ pc[q] = "do_lock" => sessions # p

\* C6: a call of client.do whose first response has status 500 has sent the
\* request once when it returns, and returns an error that carries the
\* status and the body of that response.
C6_ServerErrorNotRetried ==
    \A p \in Ops :
        (DoReturned(p) /\ firstStatus[p] = StatusInternalServerError)
            => /\ doSends[p] = 1
               /\ resp[p].err.kind = "bigv_status"
               /\ resp[p].err.status = StatusInternalServerError
               /\ resp[p].err.body = resp[p].body

C6_Witness ==
    \E p \in Ops :
        /\ DoReturned(p)
        /\ firstStatus[p] = StatusInternalServerError
        /\ resp[p].body = "vm_off"
        /\ doSends[p] = 1

C8_ValidationBeforeNetwork ==
    \A p \in Ops :
        /\ (pc[p] # "idle" /\ ~inputOk[p])
              => (pc[p] = "returned" /\ result[p].kind = "validation")
        /\ result[p].kind = "validation" => NoNetwork(p)

C8_Witness ==
    \E p \in Ops :
        /\ pc[p] = "returned"
        /\ ~inputOk[p]
        /\ result[p] = Error("validation", 0, "ssh_public_key")
        /\ session = ""

\* C9: an update in which cores or memory changed and power_on did not
\* submits power_on = false and autoreboot_on = true.
C9_ResizeForcesRestart ==
    \A p \in Ops :
        (site[p] = "update" /\ (plan[p].cores \/ plan[p].memory)
            /\ ~plan[p].power_on)
            => (payload[p].Power = FALSE /\ payload[p].Reboot = TRUE)

\* Configured power_on true and reboot false, and still a restart.
C9_Witness ==
    \E p \in Ops :
        /\ site[p] = "update" /\ pc[p] = "do_send"
        /\ plan[p].memory /\ ~plan[p].cores /\ ~plan[p].power_on
        /\ d[p].power_on /\ ~plan[p].reboot
        /\ payload[p].Power = FALSE /\ payload[p].Reboot = TRUE

\* C10: an update in which power_on changed together with cores or memory
\* submits the configured power_on and the configured reboot.
C10_ExplicitPowerWins ==
    \A p \in Ops :
        (site[p] = "update" /\ (plan[p].cores \/ plan[p].memory)
            /\ plan[p].power_on)
            => (payload[p].Power = d[p].power_on
                    /\ payload[p].Reboot = plan[p].reboot)

C10_Witness ==
    \E p \in Ops :
        /\ site[p] = "update" /\ pc[p] = "do_send"
        /\ plan[p].cores /\ plan[p].power_on
        /\ d[p].power_on /\ ~plan[p].reboot
        /\ payload[p].Power = TRUE /\ payload[p].Reboot = FALSE

\* C11: an update submits only the fields that changed: when neither cores nor
\* memory changed, the bigvVm it marshals carries no cores and no memory value
\* (both 0, which omitempty leaves out of the JSON); when either changed, it
\* carries both.
C11_UpdateSendsOnlyChangedFields ==
    \A p \in Ops :
        op[p] = "update" /\ sentHttp[p]
            => IF plan[p].cores \/ plan[p].memory
                  THEN payload[p].Cores # 0 /\ payload[p].Memory # 0
                  ELSE payload[p].Cores = 0 /\ payload[p].Memory = 0

(* ---------------------- computeCoresToMemory claims -------------------- *)

\* The state right after the first call of computeCoresToMemory on a bigvVm
\* built with calc.in.
FirstCall == calc.calls = 1

\* Whether memory is a positive whole multiple of 4096 MiB.
WholeBlocks(memory) == memory > 0 /\ memory % 4096 = 0

\* C12 as stated: for every memory that is a positive multiple of 4096,
\* computeCoresToMemory called with cores = memory/4096 succeeds and leaves
\* cores = memory/4096.
C12_Original ==
    FirstCall /\ WholeBlocks(calc.in.Memory)
              /\ calc.in.Cores = calc.in.Memory \div 4096
        => calc.ok /\ calc.v.Cores = calc.in.Memory \div 4096

\* C12: for every memory that is a positive multiple of 4096,
\* computeCoresToMemory called with cores = memory/4096 + 1 succeeds and leaves
\* cores and memory as they were; called with cores = memory/4096 it returns
\* the error, which names memory/4096 + 1 as the expected core count.
C12_WholeBlocksNeedOneMoreCore ==
    FirstCall /\ WholeBlocks(calc.in.Memory)
        => /\ calc.in.Cores = (calc.in.Memory \div 4096) + 1
                => calc.ok /\ calc.v = calc.in
           /\ calc.in.Cores = calc.in.Memory \div 4096
                => ~calc.ok /\ calc.expected = (calc.in.Memory \div 4096) + 1

\* 2 cores with 4096 MiB are accepted.
C12_Witness ==
    /\ FirstCall
    /\ calc.in = [Cores |-> 2, Memory |-> 4096]
    /\ calc.ok
    /\ calc.v = [Cores |-> 2, Memory |-> 4096]

\* The ceiling of memory/4096 as a rational.
CeilingOfBlocks(memory) == (memory + 4095) \div 4096

\* C13 as stated: when only memory is set (cores = 0, memory > 0),
\* computeCoresToMemory derives cores = ceil(memory/4096) for every memory; in
\* particular 8192 yields 2 cores.
C13_Original ==
    FirstCall /\ calc.in.Cores = 0 /\ calc.in.Memory > 0
        => /\ calc.ok
           /\ calc.v.Cores = CeilingOfBlocks(calc.in.Memory)
           /\ calc.in.Memory = 8192 => calc.v.Cores = 2

\* C13: when only memory is set (cores = 0, memory > 0), computeCoresToMemory
\* succeeds, leaves memory as it was and derives cores = floor(memory/4096) + 1
\* for every memory; in particular 8192 yields 3 cores.
C13_CoresDerivedFromMemory ==
    FirstCall /\ calc.in.Cores = 0 /\ calc.in.Memory > 0
        => /\ calc.ok
           /\ calc.v.Memory = calc.in.Memory
           /\ calc.v.Cores = (calc.in.Memory \div 4096) + 1
           /\ calc.in.Memory = 8192 => calc.v.Cores = 3

\* Memory 8192 alone has been given its 3 cores.
C13_Witness ==
    /\ FirstCall
    /\ calc.in = [Cores |-> 0, Memory |-> 8192]
    /\ calc.ok
    /\ calc.v = [Cores |-> 3, Memory |-> 8192]

\* Whether both cores and memory of the bigvVm were set.
BothSet == calc.in.Cores # 0 /\ calc.in.Memory # 0

\* C14 as stated: with both cores and memory set, computeCoresToMemory succeeds
\* if and only if cores = ceil(memory/4096); otherwise its error names that
\* expected core count; either way cores and memory are left unchanged.  In
\* particular (2, 8192) succeeds and (1, 8192) fails naming 2.
C14_Original ==
    FirstCall /\ BothSet
        => /\ calc.ok <=> calc.in.Cores = CeilingOfBlocks(calc.in.Memory)
           /\ ~calc.ok => calc.expected = CeilingOfBlocks(calc.in.Memory)
           /\ calc.v = calc.in
           /\ calc.in = [Cores |-> 2, Memory |-> 8192] => calc.ok
           /\ calc.in = [Cores |-> 1, Memory |-> 8192]
                => ~calc.ok /\ calc.expected = 2

\* C14: with both cores and memory set, computeCoresToMemory succeeds if and
\* only if cores = floor(memory/4096) + 1; otherwise its error names that
\* expected core count; either way cores and memory are left unchanged.  In
\* particular (3, 8192) succeeds, and (2, 8192) and (1, 8192) fail naming 3.
C14_BothSetMustMatch ==
    FirstCall /\ BothSet
        => /\ calc.ok <=> calc.in.Cores = (calc.in.Memory \div 4096) + 1
           /\ ~calc.ok => calc.expected = (calc.in.Memory \div 4096) + 1
           /\ calc.v = calc.in
           /\ calc.in = [Cores |-> 3, Memory |-> 8192] => calc.ok
           /\ calc.in \in {[Cores |-> 2, Memory |-> 8192],
                           [Cores |-> 1, Memory |-> 8192]}
                => ~calc.ok /\ calc.expected = 3

\* 2 cores with 8192 MiB have been rejected, with 3 named as expected.
C14_Witness ==
    /\ FirstCall
    /\ calc.in = [Cores |-> 2, Memory |-> 8192]
    /\ ~calc.ok
    /\ calc.expected = 3
    /\ calc.v = calc.in

\* The core count computeCoresToMemory assigned to or accepted for the memory
\* it was called with is n: with cores unset it derived n, and with cores set
\* it succeeded exactly when they were n.
CoresForMemoryIs(n) ==
    /\ calc.in.Cores = 0 => calc.ok /\ calc.v.Cores = n
    /\ calc.in.Cores # 0 => (calc.ok <=> calc.in.Cores = n)

\* C15: for memory given in whole GiB, the core count computeCoresToMemory
\* assigns or accepts is 1 for 1 to 3 GiB and 2 for 4 to 7 GiB.
C15_CoresPerWholeGiB ==
    /\ FirstCall /\ calc.in.Memory \in {1024, 2048, 3072} => CoresForMemoryIs(1)
    /\ FirstCall /\ calc.in.Memory \in {4096, 5120, 6144, 7168}
          => CoresForMemoryIs(2)

\* 4 GiB alone have been given 2 cores.
C15_Witness ==
    /\ FirstCall
    /\ calc.in = [Cores |-> 0, Memory |-> 4096]
    /\ calc.v = [Cores |-> 2, Memory |-> 4096]

\* C16: for every memory strictly between 0 and 4096 with cores unset,
\* computeCoresToMemory derives 1 core, never 0.
C16_SmallMemoryGetsOneCore ==
    FirstCall /\ calc.in.Cores = 0 /\ calc.in.Memory > 0 /\ calc.in.Memory < 4096
        => calc.ok /\ calc.v.Cores = 1

\* 512 MiB alone have been given 1 core.
C16_Witness ==
    /\ FirstCall
    /\ calc.in = [Cores |-> 0, Memory |-> 512]
    /\ calc.v = [Cores |-> 1, Memory |-> 512]

\* C17: when only cores is set (cores > 0, memory = 0), computeCoresToMemory
\* succeeds, derives memory = max(1024, (cores - 1) * 4096) and leaves cores
\* as they were; 3 cores give 8192 and 1 core gives 1024.
C17_MemoryDerivedFromCores ==
    FirstCall /\ calc.in.Cores > 0 /\ calc.in.Memory = 0
        => /\ calc.ok
           /\ calc.v.Cores = calc.in.Cores
           /\ calc.v.Memory >= 1024
           /\ calc.v.Memory >= (calc.in.Cores - 1) * 4096
           /\ calc.v.Memory \in {1024, (calc.in.Cores - 1) * 4096}
           /\ calc.in.Cores = 3 => calc.v.Memory = 8192
           /\ calc.in.Cores = 1 => calc.v.Memory = 1024

\* 3 cores alone have been given 8192 MiB.
C17_Witness ==
    /\ FirstCall
    /\ calc.in = [Cores |-> 3, Memory |-> 0]
    /\ calc.v = [Cores |-> 3, Memory |-> 8192]

\* C18: when both cores and memory are unset, computeCoresToMemory succeeds
\* and sets cores = 1 and memory = 1024.
C18_DefaultsWhenNothingSet ==
    FirstCall /\ calc.in = [Cores |-> 0, Memory |-> 0]
        => calc.ok /\ calc.v = [Cores |-> 1, Memory |-> 1024]

\* A bigvVm with nothing set has been through computeCoresToMemory.
C18_Witness ==
    /\ FirstCall
    /\ calc.in = [Cores |-> 0, Memory |-> 0]
    /\ calc.v.Cores = 1
    /\ calc.v.Memory = 1024

(* ------------------------ exists and delete claims --------------------- *)

\* C19: resourceBigvVMExists returns (true, nil) exactly when the remote
\* answered 200 or 202, (false, nil) exactly when it answered 404, and an error
\* for every other outcome (any other status, or no response at all).
C19_ExistsByStatus ==
    \A p \in Ops :
        op[p] = "exists" /\ pc[p] = "returned"
            => /\ found[p] /\ result[p] = NoError
                    <=> firstStatus[p] \in {StatusOK, StatusAccepted}
               /\ ~found[p] /\ result[p] = NoError
                    <=> firstStatus[p] = StatusNotFound
               /\ result[p] # NoError
                    <=> firstStatus[p] \notin {StatusOK, StatusAccepted,
                                               StatusNotFound}
               /\ result[p] # NoError => ~found[p]

\* An exists check that was answered 404 has returned (false, nil).
C19_Witness ==
    \E p \in Ops :
        /\ op[p] = "exists"
        /\ pc[p] = "returned"
        /\ firstStatus[p] = StatusNotFound
        /\ ~found[p]
        /\ result[p] = NoError

\* C20: resourceBigvVMDelete returns nil if and only if the remote answered
\* 204; every other status (200 and 202 among them) and every failure to get
\* a response yields an error.
C20_DeleteSucceedsOnlyOn204 ==
    \A p \in Ops :
        op[p] = "delete" /\ pc[p] = "returned"
            => /\ result[p] = NoError <=> firstStatus[p] = StatusNoContent
               /\ firstStatus[p] \in {StatusOK, StatusAccepted}
                    => result[p] # NoError
               /\ resp[p].err # NoError => result[p] # NoError

\* A delete that was answered 200 has returned an error.
C20_Witness ==
    \E p \in Ops :
        /\ op[p] = "delete"
        /\ pc[p] = "returned"
        /\ firstStatus[p] = StatusOK
        /\ result[p] = Error("delete_status", StatusOK, "")

(* ------------------------- read and create claims ---------------------- *)

\* C21: a resourceBigvVMRead that was answered with any status other than 200
\* (202 among them), or got no response, returns an error and leaves the id
\* and every attribute of its ResourceData as they were; only a read answered
\* 200 repopulates them, from the body of that response.
C21_ReadKeepsDataUnless200 ==
    [][\A p \in Ops :
          op[p] = "read"
              => /\ d'[p] # d[p]
                    => /\ firstStatus'[p] = StatusOK
                       /\ result'[p] = NoError
                       /\ d'[p] = resourceFromJson(d[p], resp'[p].body).d
                 /\ (pc[p] # "returned" /\ pc'[p] = "returned"
                        /\ firstStatus'[p] # StatusOK)
                    => result'[p] # NoError /\ d'[p] = d[p]]_vars

\* A read that was answered 202 has returned the status error.
C21_Witness ==
    \E p \in Ops :
        /\ op[p] = "read"
        /\ pc[p] = "returned"
        /\ firstStatus[p] = StatusAccepted
        /\ resp[p].body = "vm_on"
        /\ ~d[p].power_on
        /\ result[p] = Error("read_status", StatusAccepted, "")

\* The step in which the client.do call that p made at the given call site
\* returns.
ReturnsFrom(p, callSite) == site[p] = callSite /\ site'[p] = "none"

\* Once an operation has returned it does nothing more: it issues no poll and
\* changes neither its result nor its ResourceData.
StaysReturned(p) ==
    pc[p] = "returned"
        => /\ pc'[p] = "returned"
           /\ polls'[p] = polls[p]
           /\ sentHttp'[p] = sentHttp[p]
           /\ result'[p] = result[p]
           /\ d'[p] = d[p]

\* C22: when the vm_create submission ends with a transport error or with
\* any status other than 202 (200 among them), create returns an error at
\* that point, with no wait loop entered, no poll issued and the resource id
\* still unset, and does nothing after it.
C22_FailedSubmissionEndsCreate ==
    [][\A p \in Ops :
          /\ (ReturnsFrom(p, "vm_create")
                 /\ (resp'[p].err # NoError \/ resp'[p].status # StatusAccepted))
                => /\ pc'[p] = "returned"
                   /\ result'[p] # NoError
                   /\ waitFor'[p] = 0
                   /\ polls'[p] = 0
                   /\ d'[p].Id = ""
          /\ StaysReturned(p)]_vars

\* A create whose submission was answered 200 has returned the status error
\* without an id.
C22_Witness ==
    \E p \in Ops :
        /\ op[p] = "create"
        /\ pc[p] = "returned"
        /\ firstStatus[p] = StatusOK
        /\ result[p] = Error("create_status", StatusOK, resp[p].body)
        /\ polls[p] = 0
        /\ d[p].Id = ""

(* ----------------------------- session claims -------------------------- *)

\* The operations whose newSession request is in flight.
InNewSession == {p \in Ops : pc[p] = "new_session"}

\* C23: on one client used by concurrent operations, at most one newSession
\* request is in flight at any time.
C23_OneSessionRequestInFlight == Cardinality(InNewSession) <= 1

\* One operation's newSession request is in flight while another operation,
\* which also found no session, waits for the lock.
C23_Witness ==
    \E p, q \in Ops :
        /\ p # q
        /\ pc[p] = "new_session" /\ sessions = p
        /\ pc[q] = "do_lock"
        /\ session = ""

\* The operations that have sent a session request to the auth endpoint.
SessionRequesters == {p \in Ops : sessionReqs[p] > 0}

\* C24: when several operations make their first call at once on a client
\* without a session and the auth endpoint answers with a non-empty token,
\* exactly one session request is sent in all; an operation that gets the
\* session lock when the session is there goes on without requesting one.
C24_DoubleCheckedAcquisition ==
    /\ session # ""
          => /\ Cardinality(SessionRequesters) = 1
             /\ \A p \in SessionRequesters : sessionReqs[p] = 1
    /\ \A p \in Ops : pc[p] = "new_session" => session = ""

\* An operation that found no session at its first look holds the lock, finds
\* the token another operation stored, and has requested none.
C24_Witness ==
    \E p, q \in Ops :
        /\ p # q
        /\ sessionReqs[p] = 1
        /\ session = "tok1"
        /\ pc[q] = "do_unlock" /\ sessions = q
        /\ sessionReqs[q] = 0

(* ------------------------------ wait claims ---------------------------- *)

\* A session acquisition has completed on the client: a session request was
\* sent and answered.
SessionAcquired ==
    \E q \in Ops : sessionReqs[q] > 0 /\ pc[q] # "new_session"

\* C26: where the auth endpoint answers with non-empty tokens, client.do sends
\* no request before a session acquisition has completed on the client, and
\* the Authorization header of every request it sends carries the session
\* the client holds at that time, never an empty or an older one.
C26_RequestsCarryCurrentSession ==
    \A p \in Ops :
        pc[p] = "do_send" \/ sentHttp[p]
            => /\ SessionAcquired
               /\ session # ""
               /\ auth[p] = [scheme |-> "Bearer", token |-> session]

\* An operation that waited for the lock while another acquired the session
\* has sent its request with that session in the header.
C26_Witness ==
    \E p, q \in Ops :
        /\ p # q
        /\ sessionReqs[q] = 1
        /\ sessionReqs[p] = 0
        /\ sentHttp[p]
        /\ auth[p] = [scheme |-> "Bearer", token |-> "tok1"]
        /\ session = "tok1"

(* ----------------------------- client.do claims ------------------------ *)

\* The last call of client.do by p has returned, and its first send ended in
\* a transport error.
ReturnedAfterTransportError(p) ==
    pc[p] \notin DoPcs /\ doSends[p] >= 1 /\ firstStatus[p] = 0

\* C27: a call of client.do whose send ended in a transport error returns
\* that error at once: the request was sent once and no session was
\* reacquired in that call.
C27_TransportErrorNotRetried ==
    \A p \in Ops :
        ReturnedAfterTransportError(p)
            => /\ doSends[p] = 1
               /\ doReauths[p] = 0
               /\ resp[p].err = Error("transport", 0, "")

\* An update whose request met a transport error has returned it after one
\* send.
C27_Witness ==
    \E p \in Ops :
        /\ op[p] = "update"
        /\ ReturnedAfterTransportError(p)
        /\ doSends[p] = 1
        /\ result[p] = Error("transport", 0, "")
        /\ session = "tok1"

\* C28: the fallback of client.do, the "Unexpected error in HTTP client" error
\* after the attempt loop, is never reached: whatever the remote answers, do
\* returns from inside the loop, and the loop is never entered with its three
\* attempts used up.
C28_FallbackUnreachable ==
    \A p \in Ops :
        /\ resp[p].err.kind # "unexpected"
        /\ result[p].kind # "unexpected"
        /\ pc[p] = "do_send" => attempt[p] < doAttempts
        /\ (pc[p] \notin DoPcs /\ doSends[p] >= 1) => doSends[p] <= doAttempts

\* A call of client.do that was answered 401 has returned that response from
\* inside the loop, after one send.
C28_Witness ==
    \E p \in Ops :
        /\ pc[p] \notin DoPcs
        /\ firstStatus[p] = StatusUnauthorized
        /\ doSends[p] = 1
        /\ resp[p].status = StatusUnauthorized
        /\ resp[p].err = NoError

\* The response client.do has just handed to p was answered with this status
\* and this body.
Answered(p, status, body) ==
    /\ resp'[p].err = NoError
    /\ resp'[p].status = status
    /\ resp'[p].body = body

C30_BadPollEndsWait ==
    [][\A p \in Ops :
          /\ (ReturnsFrom(p, "poll")
                 /\ (\/ resp'[p].err # NoError
                     \/ resp'[p].status \notin {StatusOK, StatusAccepted}))
                => /\ pc'[p] = "returned"
                   /\ result'[p] # NoError
                   /\ waitFor'[p] = 0
          /\ pc[p] = "returned"
                => pc'[p] = "returned" /\ polls'[p] = polls[p]]_vars

\* A wait has ended with the status error on a poll that was answered 404
\* with a body that parses.
C30_Witness ==
    \E p \in Ops :
        /\ pc[p] = "returned"
        /\ polls[p] >= 1
        /\ firstStatus[p] = StatusNotFound
        /\ result[p] = Error("health_status", StatusNotFound, "")
        /\ d[p].Id # ""

\* C25: waitForVmSsh is not still running once more than waitForVM seconds
\* have passed in it since its entry: when the handshake never succeeds it
\* has ended, with the timeout error at the latest.
C25_SshWaitEndsAtDeadline ==
    \A p \in Ops : pc[p] = "ssh_select" => elapsed[p] <= waitForVM

(* ------------------------- create phase claims ------------------------- *)

\* The step in which p enters the waitForBigvState loop for wf.
EntersWait(p, wf) == waitFor[p] # wf /\ waitFor'[p] = wf

\* The step in which p enters the waitForVmSsh loop.
EntersSshWait(p) == pc[p] # "ssh_select" /\ pc'[p] = "ssh_select"

\* C31: within one create the phases come in order and on condition: the wait
\* for provisioned is entered only on a 202 answer to vm_create; the wait for
\* powered only when power_on was requested and the wait for provisioned has
\* returned nil; the ssh wait only when the os is not "none" and the wait for
\* powered has returned nil (so never with power_on false); and create returns
\* nil only from the end of the last phase it had to enter.
C31_PhasesInOrder ==
    [][\A p \in Ops :
          /\ EntersWait(p, waitForProvisioned)
                => /\ ReturnsFrom(p, "vm_create")
                   /\ resp'[p].err = NoError
                   /\ resp'[p].status = StatusAccepted
          /\ pc'[p] = "provisioned" /\ pc[p] # "provisioned"
                => ReturnsFrom(p, "poll") /\ waitFor[p] = waitForProvisioned
          /\ EntersWait(p, waitForPowered)
                => pc[p] = "provisioned" /\ vmPower[p]
          /\ pc'[p] = "powered" /\ pc[p] # "powered"
                => ReturnsFrom(p, "poll") /\ waitFor[p] = waitForPowered
          /\ EntersSshWait(p)
                => pc[p] = "powered" /\ ~osNone[p] /\ vmPower[p]
          /\ (op[p] = "create" /\ pc[p] # "returned" /\ pc'[p] = "returned"
                 /\ result'[p] = NoError)
                => \/ pc[p] = "provisioned" /\ ~vmPower[p]
                   \/ pc[p] = "powered" /\ osNone[p]
                   \/ pc[p] = "ssh_select"]_vars

\* A create without power_on has returned nil right after the wait for
\* provisioned.
C31_Witness ==
    \E p \in Ops :
        /\ op[p] = "create"
        /\ pc[p] = "returned"
        /\ result[p] = NoError
        /\ ~vmPower[p]
        /\ ~osNone[p]
        /\ polls[p] = 2
        /\ d[p].Id # ""

\* The step in which p takes the tick case of waitForVmSsh and dials.
DialsSsh(p) == pc[p] = "ssh_select" /\ polls'[p] = polls[p] + 1

\* C32: waitForVmSsh never fails because of a dial error: after a "connection
\* refused" and after every other error of ssh.Dial the loop goes round to the
\* next select, one check interval long; it returns nil on the first dial that
\* connects, and can end otherwise only with the timeout error.
C32_DialErrorsRetried ==
    [][\A p \in Ops :
          /\ (DialsSsh(p) /\ lastDial'[p] # "connected")
                => /\ pc'[p] = "ssh_select"
                   /\ result'[p] = result[p]
                   /\ elapsed'[p] = elapsed[p] + vmCheckInterval
          /\ (DialsSsh(p) /\ lastDial'[p] = "connected")
                => pc'[p] = "returned" /\ result'[p] = NoError
          /\ (pc[p] = "ssh_select" /\ pc'[p] = "returned")
                => \/ lastDial'[p] = "connected" /\ result'[p] = NoError
                   \/ result'[p] = Error("ssh_timeout", 0, "")]_vars

\* The ssh wait goes on after a dial error that is not "connection refused".
C32_Witness ==
    \E p \in Ops :
        /\ pc[p] = "ssh_select"
        /\ lastDial[p] = "other error"
        /\ polls[p] = 2
        /\ result[p] = NoError

(* --------------------------- refresh claims ---------------------------- *)

\* C33: the root password create generates is in the ResourceData before the
\* submission, and no later step changes it: not a poll of the create, and
\* not a read or an update of the machine afterwards.  So it is still the
\* generated value when create returns.
C33_RootPasswordKept ==
    [][\A p \in Ops :
          /\ (pc[p] = "idle" /\ op'[p] = "create")
                => d'[p].root_password \in RandomPasswords
          /\ pc[p] # "idle" => d'[p].root_password = d[p].root_password
          /\ op'[p] # "create" => d'[p].root_password = d[p].root_password
          /\ sentHttp'[p] => d'[p].root_password \in RandomPasswords]_vars

\* A create has returned nil after its polls refreshed the ResourceData, with
\* the generated password in it.
C33_Witness ==
    \E p \in Ops :
        /\ op[p] = "create"
        /\ pc[p] = "returned"
        /\ result[p] = NoError
        /\ vmPower[p]
        /\ d[p].Id = "vm1"
        /\ d[p].root_password = "pw2"

\* C34: resourceFromJson takes ipv4 and ipv6 from the first network interface
\* only and never crashes on a parseable descriptor: also when the first
\* interface lists fewer than two addresses, it returns (nil or an error)
\* instead of failing with an out-of-range access.
C34_NoCrashOnShortAddressList ==
    refresh.called
        => /\ refresh.outcome # "panic"
           /\ (Len(refresh.nics) > 0 /\ Len(refresh.nics[1]) >= 2)
                => /\ refresh.ipv4 = refresh.nics[1][1]
                   /\ refresh.ipv6 = refresh.nics[1][2]

\* C35: every path out of client.do releases the session lock: an operation
\* that is not inside client.do does not hold it, also after newSession
\* returned a transport error, so an operation waiting at sessions.Lock() is
\* never kept there by a call that has returned.
C35_DoReleasesSessionLock ==
    \A p \in Ops :
        pc[p] \notin DoPcs
            => sessions # p

GrantedTokens == {a.body : a \in {r \in AuthReplies : ~r.err /\ r.status = StatusOK}}

\* C37: newSession stores a token only when authentication succeeded: the
\* session of the client is empty or the body of an answer of the auth
\* endpoint with a success status, never the body of an answer with status
\* 401 or 500, and a transport failure leaves it as it was.
C37_SessionOnlyFromSuccess ==
    session \in {""} \cup GrantedTokens

\* C38: the payload of an update carries power_on = false only if the caller
\* changed power_on to false, or cores or memory changed without a change of
\* power_on; an update in which nothing but the reboot flag changed does not
\* send power_on = false and sends the reboot value of the caller.
C38_PowerOffOnlyWhenAsked ==
    \A p \in Ops :
        site[p] = "update"
            => /\ payload[p].Power = FALSE
                    => \/ plan[p].power_on /\ ~d[p].power_on
                       \/ (plan[p].cores \/ plan[p].memory) /\ ~plan[p].power_on
               /\ (~plan[p].power_on /\ ~plan[p].cores /\ ~plan[p].memory)
                    => payload[p].Reboot = plan[p].reboot

\* C39: computeCoresToMemory is idempotent on its successful results: for
\* cores >= 0 and memory >= 0, a first call that succeeds leaves cores > 0 and
\* memory > 0, and every later call on what it left succeeds and changes
\* nothing.
C39_IdempotentOnSuccess ==
    /\ (calc.calls >= 1 /\ calc.first.ok)
          => calc.first.v.Cores > 0 /\ calc.first.v.Memory > 0
    /\ (calc.calls >= 2 /\ calc.first.ok)
          => calc.ok /\ calc.v = calc.first.v

\* Three cores and no memory: the first call derives 8192, the second call
\* accepts the pair as it is.
C39_Witness ==
    /\ calc.calls = 2
    /\ calc.in = [Cores |-> 3, Memory |-> 0]
    /\ calc.first = [v |-> [Cores |-> 3, Memory |-> 8192], ok |-> TRUE]
    /\ calc.ok
    /\ calc.v = [Cores |-> 3, Memory |-> 8192]

====
